---- MODULE Spec2Model ----
(***************************************************************************)
(* A model of backend/council.py: the 3-stage council pipeline             *)
(* (run_full_council) with its optional Delphi reflection round.           *)
(*                                                                         *)
(* Every await of the pipeline is a point where the responder calls of one *)
(* stage settle one by one, in any order, each with success or failure;    *)
(* the code between two awaits is one atomic action.                       *)
(*                                                                         *)
(* Texts are abstract values.  A text carries the responder that produced  *)
(* it (src, model, k) only so that properties can tell texts apart: the    *)
(* tag is not content that a prompt template prints.  What a prompt        *)
(* template prints beside the texts (labels, "Model: <id>" lines) is       *)
(* modelled by the fields of the prompt records.                           *)
(***************************************************************************)
EXTENDS Integers, Sequences, FiniteSets, TLC

\* ------------------------------------------------------------------------
\* Configuration (backend/config.py: the ordered responder list, the
\* chairman, the Delphi flag).
\* ------------------------------------------------------------------------

\* Fan-out width: the number of configured responders.
NumModels == 3

ModelPool ==
    << "anthropic/claude-sonnet-4.5",
       "openai/gpt-5.2",
       "mistralai/mistral-large",
       "google/gemini-3-pro-preview",
       "x-ai/grok-4" >>

COUNCIL_MODELS == SubSeq(ModelPool, 1, NumModels)

CHAIRMAN_MODEL == "google/gemini-3-pro-preview"

Idx == 1..Len(COUNCIL_MODELS)

\* chr(65 + n) for the counters the model reaches.
chr65 == << "A", "B", "C", "D", "E", "F" >>

\* ------------------------------------------------------------------------
\* Generic sequence helpers
\* ------------------------------------------------------------------------

RECURSIVE SelectIdx(_, _, _)
\* The indices i of 1..n with keep[i], ascending (a for loop with `continue`).
SelectIdx(keep, i, n) ==
    IF i > n THEN << >>
    ELSE IF keep[i] THEN << i >> \o SelectIdx(keep, i + 1, n)
    ELSE SelectIdx(keep, i + 1, n)

Range(s) == { s[i] : i \in DOMAIN s }

\* A call evaluates its argument once, before the body runs.
Call(F(_), argument) == CHOOSE r \in { F(x) : x \in { argument } } : TRUE

\* ------------------------------------------------------------------------
\* Governance role mapping
\* ------------------------------------------------------------------------

GOVERNANCE_ROLES ==
    [ m \in { "anthropic/claude-sonnet-4.5",
              "google/gemini-3-pro-preview",
              "x-ai/grok-4" } |->
        CASE m = "anthropic/claude-sonnet-4.5" -> "Ethics Officer"
          [] m = "google/gemini-3-pro-preview" -> "Systems Architect"
          [] m = "x-ai/grok-4" -> "Red Team" ]

\* Identifiers a responder list may hold besides those of ModelPool: ones
\* that match one fallback, both, a part of one, or a table key but for the
\* case of its letters.
OtherIdentifiers ==
    { "openai/chatgpt-4o-latest",
      "OpenAI/GPT-4o",
      "openai/o3-mini",
      "azure/gpt-4",
      "mistralai/Mistral-7B-Instruct",
      "openai/gpt-oss-mistral-tuned",
      "Anthropic/Claude-Sonnet-4.5",
      "meta-llama/llama-3-70b" }

\* model.lower()
Lower(model) ==
    CASE model = "OpenAI/GPT-4o" -> "openai/gpt-4o"
      [] model = "mistralai/Mistral-7B-Instruct" -> "mistralai/mistral-7b-instruct"
      [] model = "Anthropic/Claude-Sonnet-4.5" -> "anthropic/claude-sonnet-4.5"
      [] OTHER -> model

\* The keywords of the fallbacks that are substrings of a lower-case string.
KeywordsIn(lowered) ==
    CASE lowered = "openai/gpt-5.2" -> { "openai/", "gpt" }
      [] lowered = "openai/chatgpt-4o-latest" -> { "openai/", "chatgpt", "gpt" }
      [] lowered = "openai/gpt-4o" -> { "openai/", "gpt" }
      [] lowered = "openai/o3-mini" -> { "openai/" }
      [] lowered = "azure/gpt-4" -> { "gpt" }
      [] lowered = "mistralai/mistral-large" -> { "mistral" }
      [] lowered = "mistralai/mistral-7b-instruct" -> { "mistral" }
      [] lowered = "openai/gpt-oss-mistral-tuned" -> { "openai/", "gpt", "mistral" }
      [] OTHER -> { }

\* The substrings of model.lower() that the fallbacks test.
Substrings(model) == KeywordsIn(Lower(model))

\* The test for the Mistral variants made before the one for the ChatGPT
\* variants.
get_governance_role_VendorFirst(model) ==
    IF model \in DOMAIN GOVERNANCE_ROLES THEN GOVERNANCE_ROLES[model]
    ELSE IF "mistral" \in Substrings(model) THEN "Safety Engineer"
    ELSE IF "openai/" \in Substrings(model)
            /\ ("chatgpt" \in Substrings(model) \/ "gpt" \in Substrings(model))
         THEN "Systems Integrator"
    ELSE "Council Member"

get_governance_role(model) ==
    IF model \in DOMAIN GOVERNANCE_ROLES THEN GOVERNANCE_ROLES[model]
    ELSE IF "openai/" \in Substrings(model)
            /\ ("chatgpt" \in Substrings(model) \/ "gpt" \in Substrings(model))
         THEN "Systems Integrator"
    ELSE IF "mistral" \in Substrings(model) THEN "Safety Engineer"
    ELSE "Council Member"

\* ------------------------------------------------------------------------
\* Responder calls
\* ------------------------------------------------------------------------

\* A call that has not settled, a call that returned None, a call that
\* returned {"content": c}.
\* `from` is the position of the call in the stage's task list, `k` selects
\* the text returned among the texts the model lets a responder return.
Pending == [ status |-> "pending", from |-> 0, k |-> 0 ]
None(i) == [ status |-> "none", from |-> i, k |-> 0 ]
Ok(i, k) == [ status |-> "ok", from |-> i, k |-> k ]

AllPending == [ i \in Idx |-> Pending ]

Settled(resps) == \A i \in DOMAIN resps : resps[i].status # "pending"

\* Optional[List]: None, or a list.
NoList == [ isNone |-> TRUE, items |-> << >> ]
Some(items) == [ isNone |-> FALSE, items |-> items ]
\* Python truthiness of an Optional[List].
Truthy(opt) == ~opt.isNone /\ opt.items # << >>

\* ------------------------------------------------------------------------
\* Stage 1: collect responses
\* ------------------------------------------------------------------------

\* The role prefix stage 1 prepends to the question; "" when there is none.
role_prefix(model) ==
    IF model \in { "anthropic/claude-sonnet-4.5",
                   "google/gemini-3-pro-preview",
                   "x-ai/grok-4" } THEN "SAFETY_ROLES"
    ELSE IF "openai/" \in Substrings(model)
            /\ ("chatgpt" \in Substrings(model) \/ "gpt" \in Substrings(model))
         THEN "CHATGPT_ROLE"
    ELSE IF "mistral" \in Substrings(model) THEN "MISTRAL_ROLE"
    ELSE ""

\* A prompt is a record: `kind`, the text blocks it shows (`blocks`) and, for
\* the chairman, the ranking submissions it shows (`rankings`).  A block or a
\* submission is printed under a key: "Response <name>" (by = "label"),
\* "Peer <name>" (by = "peer") or "Model: <name>" (by = "model").

\* The text a responder returns in stage 1.
Round1Text(model) == [ src |-> "round1", model |-> model, k |-> 0 ]

Stage1Calls ==
    [ i \in Idx |->
        [ stage |-> "stage1", model |-> COUNCIL_MODELS[i],
          prompt |-> [ kind |-> "question",
                       prefix |-> role_prefix(COUNCIL_MODELS[i]),
                       blocks |-> << >>,
                       rankings |-> << >> ] ] ]

\* The results in the order in which the calls completed.
gather_ByCompletion(resps, done) == [ n \in DOMAIN resps |-> resps[done[n]] ]

\* asyncio.gather: the results in the order of the awaitables, whatever the
\* order `done` in which they completed.
gather(resps, done) == resps

\* A loop that does not skip the responders whose call returned None.
Stage1Kept_NoSkip(resps) ==
    SelectIdx([ i \in DOMAIN resps |-> TRUE ], 1, Len(resps))

\* The loop of stage1_collect_responses over zip(COUNCIL_MODELS, responses):
\* the positions that produced a response, in list order.
Stage1Kept(resps) ==
    SelectIdx([ i \in DOMAIN resps |-> resps[i].status # "none" ], 1, Len(resps))

\* Labels taken from the position in the responder list instead of the
\* member counter.
stage1_members_ByPosition(resps) ==
    LET kept == Stage1Kept(resps)
    IN [ n \in 1..Len(kept) |->
           [ id |-> chr65[kept[n]],
             model |-> COUNCIL_MODELS[kept[n]],
             role |-> get_governance_role(COUNCIL_MODELS[kept[n]]) ] ]

stage1_members(resps) ==
    LET kept == Stage1Kept(resps)
    IN [ n \in 1..Len(kept) |->
           [ id |-> chr65[n],
             model |-> COUNCIL_MODELS[kept[n]],
             role |-> get_governance_role(COUNCIL_MODELS[kept[n]]) ] ]

stage1_collect(resps) ==
    LET kept == Stage1Kept(resps)
        members == stage1_members(resps)
    IN [ n \in 1..Len(kept) |->
           [ member_id |-> members[n].id,
             model |-> COUNCIL_MODELS[kept[n]],
             response |-> Round1Text(COUNCIL_MODELS[resps[kept[n]].from]) ] ]

\* CouncilMember.label
label(member) == << "Response", member.id >>

\* ------------------------------------------------------------------------
\* Stage 1.5: Delphi reflection
\* ------------------------------------------------------------------------

\* The texts a responder may return to the reflection prompt, by what the
\* parsers and the detector look for in them: the DECISION line, the
\* JUSTIFICATION and FINAL RESPONSE markers, a phrase of the `explicit` list,
\* a keyword of the `high_risk_triggers` list.
ReflectionTexts ==
    << [ decision |-> "REVISE", justification |-> TRUE, final |-> TRUE,
         explicit |-> TRUE, high_risk |-> FALSE ],
       [ decision |-> "", justification |-> FALSE, final |-> FALSE,
         explicit |-> FALSE, high_risk |-> FALSE ] >>

ReflectionText(model, k) == [ src |-> "reflection", model |-> model, k |-> k ]

\* What a text holds of the markers and keywords above; a text that is not
\* a reply to the reflection prompt holds none.
Features(text) ==
    IF text.src = "reflection" THEN ReflectionTexts[text.k]
    ELSE [ decision |-> "", justification |-> FALSE, final |-> FALSE,
           explicit |-> FALSE, high_risk |-> FALSE ]

\* str(i) for the enumerate(peer_responses, 1) of the digest.
PeerNumber == << "1", "2", "3", "4", "5" >>

\* One "Peer <i>: <summary>" line per peer response; << >> stands for
\* "No peer responses available.".
_create_peer_digest(peer_responses) ==
    IF peer_responses = << >> THEN << >>
    ELSE [ i \in 1..Len(peer_responses) |->
             [ by |-> "peer", name |-> PeerNumber[i], text |-> peer_responses[i] ] ]

\* (decision, justification, final_response)
_parse_delphi_response(response_text) ==
    LET f == Features(response_text)
    IN [ decision |-> IF f.decision # "" THEN f.decision ELSE "AFFIRM",
         justification |->
            IF f.justification
            THEN [ src |-> "justification", model |-> response_text.model,
                   k |-> response_text.k ]
            ELSE [ src |-> "No justification provided", model |-> "", k |-> 0 ],
         final_response |->
            IF f.final
            THEN [ src |-> "final_response", model |-> response_text.model,
                   k |-> response_text.k ]
            ELSE response_text ]

_detect_material_disagreement(response_text) ==
    Features(response_text).explicit \/ Features(response_text).high_risk

_extract_disagreement_summary(response_text) ==
    [ src |-> "summary", model |-> response_text.model, k |-> response_text.k ]

\* Every member's round-1 text, the i-th member's own among them.
peer_responses_WithOwn(results, i) ==
    [ n \in 1..Len(results) |-> results[n].response ]

\* The other members' round-1 texts, in member order (j != i).
peer_responses(results, i) ==
    [ n \in 1..(Len(results) - 1) |->
        IF n < i THEN results[n].response ELSE results[n + 1].response ]

ReflectionCalls(members, results) ==
    [ i \in 1..Len(members) |->
        [ stage |-> "reflection", model |-> members[i].model,
          prompt |-> [ kind |-> "reflection",
                       own |-> results[i].response,
                       blocks |-> _create_peer_digest(peer_responses(results, i)),
                       rankings |-> << >> ] ] ]

\* A reflection round that reads a missing reply as dissent.
delphi_outcome_FlagsSilence(members, member, round1, resp) ==
    [ member_id |-> member.id,
      model |-> member.model,
      round1_response |-> round1.response,
      round2_response |->
         IF resp.status = "none" THEN round1.response
         ELSE _parse_delphi_response(
                ReflectionText(members[resp.from].model, resp.k)).final_response,
      decision |->
         IF resp.status = "none" THEN "AFFIRM"
         ELSE _parse_delphi_response(
                ReflectionText(members[resp.from].model, resp.k)).decision,
      revision_reason |->
         IF resp.status = "none"
         THEN [ src |-> "Model did not respond to reflection prompt",
                model |-> "", k |-> 0 ]
         ELSE _parse_delphi_response(
                ReflectionText(members[resp.from].model, resp.k)).justification,
      has_material_disagreement |->
         \/ resp.status = "none"
         \/ _detect_material_disagreement(
               ReflectionText(members[resp.from].model, resp.k)) ]

\* One entry of delphi_results: the pass-through when the call returned
\* None, the parsed reply otherwise.
delphi_outcome(members, member, round1, resp) ==
    IF resp.status = "none"
    THEN [ member_id |-> member.id,
           model |-> member.model,
           round1_response |-> round1.response,
           round2_response |-> round1.response,
           decision |-> "AFFIRM",
           revision_reason |->
              [ src |-> "Model did not respond to reflection prompt",
                model |-> "", k |-> 0 ],
           has_material_disagreement |-> FALSE ]
    ELSE LET response_text == ReflectionText(members[resp.from].model, resp.k)
             parsed == _parse_delphi_response(response_text)
         IN [ member_id |-> member.id,
              model |-> member.model,
              round1_response |-> round1.response,
              round2_response |-> parsed.final_response,
              decision |-> parsed.decision,
              revision_reason |-> parsed.justification,
              has_material_disagreement |->
                 _detect_material_disagreement(response_text) ]

\* A reflection round that, like stage 1, leaves out the members whose call
\* returned None.
stage1_5_results_SkipFailed(members, results, resps) ==
    LET kept == SelectIdx([ i \in 1..Len(members) |-> resps[i].status = "ok" ],
                          1, Len(members))
    IN [ n \in 1..Len(kept) |->
           delphi_outcome(members, members[kept[n]], results[kept[n]], resps[kept[n]]) ]

stage1_5_results(members, results, resps) ==
    [ i \in 1..Len(members) |-> delphi_outcome(members, members[i], results[i], resps[i]) ]

\* A list that takes an entry for every reply, flagged or not.
stage1_5_disagreements_EveryReply(members, resps) ==
    LET replied == SelectIdx([ i \in 1..Len(members) |-> resps[i].status = "ok" ],
                             1, Len(members))
    IN [ n \in 1..Len(replied) |->
           [ member |-> members[replied[n]].model,
             role |-> members[replied[n]].role,
             issue |-> _extract_disagreement_summary(
                         ReflectionText(members[resps[replied[n]].from].model,
                                        resps[replied[n]].k)) ] ]

\* material_disagreements: one entry per reply the detector flags.
stage1_5_disagreements(members, resps) ==
    LET flagged ==
          SelectIdx([ i \in 1..Len(members) |->
                        /\ resps[i].status = "ok"
                        /\ _detect_material_disagreement(
                              ReflectionText(members[resps[i].from].model, resps[i].k)) ],
                    1, Len(members))
    IN [ n \in 1..Len(flagged) |->
           [ member |-> members[flagged[n]].model,
             role |-> members[flagged[n]].role,
             issue |-> _extract_disagreement_summary(
                         ReflectionText(members[resps[flagged[n]].from].model,
                                        resps[flagged[n]].k)) ] ]

stage1_5_needs_human_review(disagreements, results) ==
    \/ Len(disagreements) > 0
    \/ \E i \in DOMAIN results : results[i].has_material_disagreement

\* ------------------------------------------------------------------------
\* Ranking parsing + aggregation
\* ------------------------------------------------------------------------

\* A ranking text is a sequence of tokens: the literal "FINAL RANKING:", a
\* numbered line "<n>. Response <L>", a mention "Response <L>" with no number
\* before it, anything else.
Marker == [ t |-> "marker", l |-> "" ]
Num(l) == [ t |-> "num", l |-> l ]
Bare(l) == [ t |-> "bare", l |-> l ]
Other == [ t |-> "other", l |-> "" ]

RECURSIVE FindAll(_, _)
\* re.findall over the tokens: the labels of the tokens of the kinds `kinds`,
\* in order of appearance.
FindAll(tokens, kinds) ==
    IF tokens = << >> THEN << >>
    ELSE IF Head(tokens).t \in kinds
         THEN << << "Response", Head(tokens).l >> >> \o FindAll(Tail(tokens), kinds)
         ELSE FindAll(Tail(tokens), kinds)

RECURSIVE SplitOn(_, _)
\* str.split(sep): the pieces between the separators, Len = separators + 1.
SplitOn(tokens, sep) ==
    IF \A i \in DOMAIN tokens : tokens[i] # sep THEN << tokens >>
    ELSE LET first == CHOOSE i \in DOMAIN tokens :
                         /\ tokens[i] = sep
                         /\ \A j \in 1..(i - 1) : tokens[j] # sep
         IN << SubSeq(tokens, 1, first - 1) >>
              \o SplitOn(SubSeq(tokens, first + 1, Len(tokens)), sep)

parse_ranking_from_text(ranking_text) ==
    LET parts == SplitOn(ranking_text, Marker)
    IN IF (\E i \in DOMAIN ranking_text : ranking_text[i] = Marker) /\ Len(parts) >= 2
       THEN LET ranking_section == parts[2]
                numbered == FindAll(ranking_section, { "num" })
            IN IF numbered # << >> THEN numbered
               ELSE FindAll(ranking_section, { "num", "bare" })
       ELSE FindAll(ranking_text, { "num", "bare" })

\* response_mapping is a dict keyed by member id, kept here in insertion
\* order as a sequence of entries.
MappingKeys(response_mapping) == { response_mapping[i].id : i \in DOMAIN response_mapping }

MappingGet(response_mapping, response_id) ==
    response_mapping[CHOOSE i \in DOMAIN response_mapping :
                        response_mapping[i].id = response_id]

\* The index of enumerate(parsed) taken from 0.
AppendPosition_ZeroBased(model_positions, model_name, position) ==
    IF \E i \in DOMAIN model_positions : model_positions[i].model = model_name
    THEN LET i == CHOOSE i \in DOMAIN model_positions :
                     model_positions[i].model = model_name
         IN [ model_positions EXCEPT ![i].positions = Append(@, position - 1) ]
    ELSE Append(model_positions, [ model |-> model_name, positions |-> << position - 1 >> ])

\* model_positions[model_name].append(position) on a defaultdict(list) kept
\* in insertion order.
AppendPosition(model_positions, model_name, position) ==
    LET append(d) ==
          IF \E i \in DOMAIN d : d[i].model = model_name
          THEN LET i == CHOOSE i \in DOMAIN d : d[i].model = model_name
               IN [ d EXCEPT ![i].positions = Append(@, position) ]
          ELSE Append(d, [ model |-> model_name, positions |-> << position >> ])
    IN Call(append, model_positions)

RECURSIVE RecordParsed(_, _, _, _)
\* for position, label in enumerate(parsed, start=1)
RecordParsed(model_positions, parsed, position, response_mapping) ==
    IF position > Len(parsed) THEN model_positions
    ELSE LET response_id == parsed[position][2]
         IN IF response_id \in MappingKeys(response_mapping)
            THEN RecordParsed(
                   AppendPosition(model_positions,
                                  MappingGet(response_mapping, response_id).model,
                                  position),
                   parsed, position + 1, response_mapping)
            ELSE RecordParsed(model_positions, parsed, position + 1, response_mapping)

RECURSIVE RecordAll(_, _, _, _)
\* for ranking in stage2_results
RecordAll(model_positions, results, n, response_mapping) ==
    IF n > Len(results) THEN model_positions
    ELSE LET parsed == IF results[n].parsed_ranking # << >>
                       THEN results[n].parsed_ranking
                       ELSE parse_ranking_from_text(results[n].ranking)
         IN RecordAll(RecordParsed(model_positions, parsed, 1, response_mapping),
                      results, n + 1, response_mapping)

RECURSIVE Sum(_)
Sum(s) == IF s = << >> THEN 0 ELSE Head(s) + Sum(Tail(s))

\* round(total / count, 2), in hundredths; round() rounds a tie to even.
Round2(total, count) ==
    LET q == (100 * total) \div count
        r == (100 * total) % count
    IN IF 2 * r < count THEN q
       ELSE IF 2 * r > count THEN q + 1
       ELSE IF q % 2 = 0 THEN q ELSE q + 1

\* The role of the first mapping entry of that model.
RoleOf(response_mapping, model) ==
    IF \E i \in DOMAIN response_mapping : response_mapping[i].model = model
    THEN LET i == CHOOSE i \in DOMAIN response_mapping :
                     /\ response_mapping[i].model = model
                     /\ \A j \in 1..(i - 1) : response_mapping[j].model # model
         IN response_mapping[i].role
    ELSE "Council Member"

RECURSIVE InsertSorted_BeforeEqual(_, _)
\* Insert before the first entry whose key is not smaller: later entries
\* overtake earlier ones of the same key.
InsertSorted_BeforeEqual(sorted, e) ==
    IF sorted = << >> THEN << e >>
    ELSE IF Head(sorted).average_rank < e.average_rank
         THEN << Head(sorted) >> \o InsertSorted_BeforeEqual(Tail(sorted), e)
         ELSE << e >> \o sorted

RECURSIVE InsertSorted(_, _)
\* Insert after every entry whose key is not greater: a stable sort.
InsertSorted(sorted, e) ==
    IF sorted = << >> THEN << e >>
    ELSE IF Head(sorted).average_rank <= e.average_rank
         THEN << Head(sorted) >> \o InsertSorted(Tail(sorted), e)
         ELSE << e >> \o sorted

\* The entries left in the order in which the responders were first met.
StableSort_Unsorted(sorted, rest) == sorted \o rest

RECURSIVE StableSort(_, _)
\* list.sort(key=average_rank)
StableSort(sorted, rest) ==
    IF rest = << >> THEN sorted
    ELSE StableSort(InsertSorted(sorted, Head(rest)), Tail(rest))

calculate_aggregate_rankings(results, response_mapping) ==
    LET aggregate(model_positions) ==
          [ i \in DOMAIN model_positions |->
              [ model |-> model_positions[i].model,
                role |-> RoleOf(response_mapping, model_positions[i].model),
                average_rank |-> Round2(Sum(model_positions[i].positions),
                                        Len(model_positions[i].positions)),
                rankings_count |-> Len(model_positions[i].positions) ] ]
        sort(entries) == StableSort(<< >>, entries)
    IN Call(sort, Call(aggregate, RecordAll(<< >>, results, 1, response_mapping)))

\* ------------------------------------------------------------------------
\* Stage 2: collect rankings
\* ------------------------------------------------------------------------

\* The texts a responder may return to the ranking prompt.
RankingTexts ==
    << << Bare("C"), Marker, Num("B"), Num("A"), Num("C") >>,
       << Other, Bare("A"), Bare("B") >> >>

\* A mapping built over the members but the last.
stage2_response_mapping_DropsLast(members) ==
    [ i \in 1..(Len(members) - 1) |->
        [ id |-> members[i].id,
          model |-> members[i].model,
          role |-> members[i].role,
          label |-> label(members[i]) ] ]

stage2_response_mapping(members) ==
    [ i \in DOMAIN members |->
        [ id |-> members[i].id,
          model |-> members[i].model,
          role |-> members[i].role,
          label |-> label(members[i]) ] ]

stage2_label_to_model(members) ==
    [ i \in DOMAIN members |->
        [ label |-> label(members[i]), model |-> members[i].model ] ]

Min(a, b) == IF a <= b THEN a ELSE b

\* A ranking prompt that shows each text under the responder identifier.
ranking_prompt_ByModel(members, results) ==
    [ kind |-> "ranking",
      blocks |-> [ i \in 1..Min(Len(members), Len(results)) |->
                     [ by |-> "model", name |-> members[i].model,
                       text |-> results[i].response ] ],
      rankings |-> << >> ]

\* responses_text: one block per pair of zip(council_members, stage1_results).
ranking_prompt(members, results) ==
    [ kind |-> "ranking",
      blocks |-> [ i \in 1..Min(Len(members), Len(results)) |->
                     [ by |-> "label", name |-> label(members[i])[2],
                       text |-> results[i].response ] ],
      rankings |-> << >> ]

Stage2Calls(members, results) ==
    [ i \in Idx |->
        [ stage |-> "stage2", model |-> COUNCIL_MODELS[i],
          prompt |-> ranking_prompt(members, results) ] ]

\* query_models_parallel: the map responder -> reply, whose items come in
\* the order of the responder list it was given.  The helper hides the order
\* in which its calls complete from the caller.
query_models_parallel(models, resps) ==
    [ i \in DOMAIN models |-> [ model |-> models[i], resp |-> resps[i] ] ]

\* A loop that files a submission, with an empty text, for a reply that is
\* None.
stage2_collect_NoSkip(model_responses) ==
    [ n \in DOMAIN model_responses |->
        LET full_text == IF model_responses[n].resp.status = "none" THEN << >>
                         ELSE RankingTexts[model_responses[n].resp.k]
        IN [ model |-> model_responses[n].model,
             ranking |-> full_text,
             parsed_ranking |-> parse_ranking_from_text(full_text) ] ]

\* The loop over model_responses.items(): a reply that is None is skipped.
stage2_collect(model_responses) ==
    LET results(kept) ==
          [ n \in 1..Len(kept) |->
              LET result(full_text) ==
                    [ model |-> model_responses[kept[n]].model,
                      ranking |-> full_text,
                      parsed_ranking |-> parse_ranking_from_text(full_text) ]
              IN Call(result, RankingTexts[model_responses[kept[n]].resp.k]) ]
    IN Call(results, SelectIdx([ i \in DOMAIN model_responses |->
                                   model_responses[i].resp.status # "none" ],
                               1, Len(model_responses)))

stage2_mapping_metadata(members) ==
    [ council_members |-> members,
      response_mapping |-> stage2_response_mapping(members),
      label_to_model |-> stage2_label_to_model(members) ]

\* ------------------------------------------------------------------------
\* Stage 3: chairman synthesis
\* ------------------------------------------------------------------------

\* A chairman prompt that never gets the section appended under
\* `if needs_human_review`.
chairman_prompt_NoSixthSection(results1, results2, delphi, review) ==
    [ kind |-> "chairman",
      mode_context |-> IF Truthy(delphi) THEN "delphi" ELSE "individual",
      blocks |->
         IF Truthy(delphi)
         THEN [ i \in DOMAIN delphi.items |->
                  [ by |-> "model", name |-> delphi.items[i].model,
                    decision |-> delphi.items[i].decision,
                    reason |-> delphi.items[i].revision_reason,
                    text |-> delphi.items[i].round2_response ] ]
         ELSE [ i \in DOMAIN results1 |->
                  [ by |-> "model", name |-> results1[i].model,
                    decision |-> "",
                    reason |-> [ src |-> "", model |-> "", k |-> 0 ],
                    text |-> results1[i].response ] ],
      rankings |-> [ i \in DOMAIN results2 |->
                       [ by |-> "model", name |-> results2[i].model,
                         ranking |-> results2[i].ranking ] ],
      sections |-> << "A", "B", "C", "D", "E" >> ]

chairman_prompt(results1, results2, delphi, review) ==
    [ kind |-> "chairman",
      mode_context |-> IF Truthy(delphi) THEN "delphi" ELSE "individual",
      blocks |->
         IF Truthy(delphi)
         THEN [ i \in DOMAIN delphi.items |->
                  [ by |-> "model", name |-> delphi.items[i].model,
                    decision |-> delphi.items[i].decision,
                    reason |-> delphi.items[i].revision_reason,
                    text |-> delphi.items[i].round2_response ] ]
         ELSE [ i \in DOMAIN results1 |->
                  [ by |-> "model", name |-> results1[i].model,
                    decision |-> "",
                    reason |-> [ src |-> "", model |-> "", k |-> 0 ],
                    text |-> results1[i].response ] ],
      \* << >> stands for "No rankings available."
      rankings |-> [ i \in DOMAIN results2 |->
                       [ by |-> "model", name |-> results2[i].model,
                         ranking |-> results2[i].ranking ] ],
      sections |-> IF review THEN << "A", "B", "C", "D", "E", "F" >>
                   ELSE << "A", "B", "C", "D", "E" >> ]

\* A failure artifact that does not carry the escalation boolean over.
stage3_result_of_DropsReview(resp, review) ==
    IF resp.status = "none"
    THEN [ model |-> CHAIRMAN_MODEL,
           response |-> [ src |-> "Error: Unable to generate final synthesis.",
                          model |-> "", k |-> 0 ],
           needs_human_review |-> FALSE ]
    ELSE [ model |-> CHAIRMAN_MODEL,
           response |-> [ src |-> "synthesis", model |-> CHAIRMAN_MODEL, k |-> 0 ],
           needs_human_review |-> review ]

stage3_result_of(resp, review) ==
    IF resp.status = "none"
    THEN [ model |-> CHAIRMAN_MODEL,
           response |-> [ src |-> "Error: Unable to generate final synthesis.",
                          model |-> "", k |-> 0 ],
           needs_human_review |-> review ]
    ELSE [ model |-> CHAIRMAN_MODEL,
           response |-> [ src |-> "synthesis", model |-> CHAIRMAN_MODEL, k |-> 0 ],
           needs_human_review |-> review ]

\* The artifact run_full_council returns when stage 1 produced nothing.
AllFailedArtifact ==
    << << >>,
       << >>,
       [ model |-> "error",
         response |-> [ src |-> "All models failed to respond. Please try again.",
                        model |-> "", k |-> 0 ] ],
       [ x \in { } |-> 0 ] >>

\* ------------------------------------------------------------------------
\* Full pipeline: run_full_council
\* ------------------------------------------------------------------------

VARIABLES
    pc,                     \* the await run_full_council is suspended at
    DELPHI_MODE,            \* the feature flag of the configuration
    calls,                  \* every responder call issued so far, in order
    done,                   \* positions of the calls asyncio.gather awaits, in completion order
    responses1,             \* stage 1: the reply of each call, by position
    responses1_5,           \* stage 1.5: the reply of each call, by position
    responses2,             \* stage 2: the reply of each call, by position
    stage1_results,
    council_members,
    delphi_results,
    material_disagreements,
    needs_human_review,
    ranking_input,
    stage2_results,
    mapping_metadata,
    aggregate_rankings,
    artifact                \* what run_full_council returned; << >> before it returns

vars ==
    << pc, DELPHI_MODE, calls, done, responses1, responses1_5, responses2,
       stage1_results, council_members, delphi_results, material_disagreements,
       needs_human_review, ranking_input, stage2_results, mapping_metadata,
       aggregate_rankings, artifact >>

Init ==
    /\ pc = "start"
    /\ DELPHI_MODE \in BOOLEAN
    /\ calls = << >>
    /\ done = << >>
    /\ responses1 = << >>
    /\ responses1_5 = << >>
    /\ responses2 = << >>
    /\ stage1_results = << >>
    /\ council_members = << >>
    /\ delphi_results = NoList
    /\ material_disagreements = << >>
    /\ needs_human_review = FALSE
    /\ ranking_input = << >>
    /\ stage2_results = << >>
    /\ mapping_metadata = stage2_mapping_metadata(<< >>)
    /\ aggregate_rankings = << >>
    /\ artifact = << >>

\* run_full_council is called: stage 1 creates one task per configured
\* responder and awaits them.
Start ==
    /\ pc = "start"
    /\ pc' = "stage1"
    /\ calls' = calls \o Stage1Calls
    /\ responses1' = AllPending
    /\ UNCHANGED << DELPHI_MODE, done, responses1_5, responses2, stage1_results,
                    council_members, delphi_results, material_disagreements,
                    needs_human_review, ranking_input, stage2_results,
                    mapping_metadata, aggregate_rankings, artifact >>

\* One stage-1 call settles: a reply, or None.
Stage1Settle(i) ==
    /\ pc = "stage1"
    /\ responses1[i].status = "pending"
    /\ \E ok \in BOOLEAN :
         responses1' = [ responses1 EXCEPT ![i] = IF ok THEN Ok(i, 0) ELSE None(i) ]
    /\ done' = Append(done, i)
    /\ UNCHANGED << pc, DELPHI_MODE, calls, responses1_5, responses2, stage1_results,
                    council_members, delphi_results, material_disagreements,
                    needs_human_review, ranking_input, stage2_results,
                    mapping_metadata, aggregate_rankings, artifact >>

\* A ranking input that is the stage-1 results whatever the reflection round
\* returned.
ranking_input_of_Round1(results, delphi) == results

\* run_full_council's ranking_input when reflection ran: the round-2 texts.
ranking_input_of(results, delphi) ==
    IF DELPHI_MODE /\ Truthy(delphi)
    THEN [ i \in DOMAIN delphi.items |->
             [ member_id |-> delphi.items[i].member_id,
               model |-> delphi.items[i].model,
               response |-> delphi.items[i].round2_response ] ]
    ELSE results

\* A pipeline without the `if not stage1_results` return: it goes on to
\* stage 2 with no member.
Stage1AllFailed_GoesOn ==
    /\ pc = "stage1"
    /\ Settled(responses1)
    /\ LET resps == gather(responses1, done)
       IN /\ stage1_collect(resps) = << >>
          /\ stage1_results' = stage1_collect(resps)
          /\ council_members' = stage1_members(resps)
    /\ ranking_input' = << >>
    /\ calls' = calls \o Stage2Calls(<< >>, << >>)
    /\ responses2' = AllPending
    /\ pc' = "stage2"
    /\ done' = << >>
    /\ UNCHANGED << DELPHI_MODE, responses1, responses1_5, delphi_results,
                    material_disagreements, needs_human_review, stage2_results,
                    mapping_metadata, aggregate_rankings, artifact >>

\* Every stage-1 call has settled and every one returned None: the pipeline
\* returns the error artifact.
Stage1AllFailed ==
    /\ pc = "stage1"
    /\ Settled(responses1)
    /\ LET resps == gather(responses1, done)
       IN /\ stage1_collect(resps) = << >>
          /\ stage1_results' = stage1_collect(resps)
          /\ council_members' = stage1_members(resps)
    /\ artifact' = AllFailedArtifact
    /\ pc' = "done"
    /\ done' = << >>
    /\ UNCHANGED << DELPHI_MODE, calls, responses1, responses1_5, responses2,
                    delphi_results, material_disagreements, needs_human_review,
                    ranking_input, stage2_results, mapping_metadata,
                    aggregate_rankings >>

\* A reflection round that starts whatever DELPHI_MODE says.
Stage1ToReflection_FlagIgnored ==
    /\ pc = "stage1"
    /\ Settled(responses1)
    /\ LET resps == gather(responses1, done)
           results == stage1_collect(resps)
           members == stage1_members(resps)
       IN /\ results # << >>
          /\ stage1_results' = results
          /\ council_members' = members
          /\ calls' = calls \o ReflectionCalls(members, results)
          /\ responses1_5' = [ i \in 1..Len(members) |-> Pending ]
    /\ pc' = "stage1_5"
    /\ done' = << >>
    /\ UNCHANGED << DELPHI_MODE, responses1, responses2, delphi_results,
                    material_disagreements, needs_human_review, ranking_input,
                    stage2_results, mapping_metadata, aggregate_rankings, artifact >>

\* Every stage-1 call has settled, DELPHI_MODE is on: the reflection round
\* creates one task per council member and awaits them.
Stage1ToReflection ==
    /\ pc = "stage1"
    /\ Settled(responses1)
    /\ DELPHI_MODE
    /\ LET resps == gather(responses1, done)
           results == stage1_collect(resps)
           members == stage1_members(resps)
       IN /\ results # << >>
          /\ stage1_results' = results
          /\ council_members' = members
          /\ calls' = calls \o ReflectionCalls(members, results)
          /\ responses1_5' = [ i \in 1..Len(members) |-> Pending ]
    /\ pc' = "stage1_5"
    /\ done' = << >>
    /\ UNCHANGED << DELPHI_MODE, responses1, responses2, delphi_results,
                    material_disagreements, needs_human_review, ranking_input,
                    stage2_results, mapping_metadata, aggregate_rankings, artifact >>

\* Every stage-1 call has settled, DELPHI_MODE is off: stage 2 broadcasts the
\* ranking prompt over the round-1 texts.
Stage1ToStage2 ==
    /\ pc = "stage1"
    /\ Settled(responses1)
    /\ ~DELPHI_MODE
    /\ LET resps == gather(responses1, done)
           results == stage1_collect(resps)
           members == stage1_members(resps)
       IN /\ results # << >>
          /\ stage1_results' = results
          /\ council_members' = members
          /\ ranking_input' = ranking_input_of(results, delphi_results)
          /\ calls' = calls \o Stage2Calls(members, ranking_input_of(results, delphi_results))
    /\ responses2' = AllPending
    /\ pc' = "stage2"
    /\ done' = << >>
    /\ UNCHANGED << DELPHI_MODE, responses1, responses1_5, delphi_results,
                    material_disagreements, needs_human_review, stage2_results,
                    mapping_metadata, aggregate_rankings, artifact >>

\* One reflection call settles: one of the reflection texts, or None.
ReflectionSettle(i) ==
    /\ pc = "stage1_5"
    /\ i \in DOMAIN responses1_5
    /\ responses1_5[i].status = "pending"
    /\ \E k \in 0..Len(ReflectionTexts) :
         responses1_5' = [ responses1_5 EXCEPT ![i] = IF k = 0 THEN None(i) ELSE Ok(i, k) ]
    /\ done' = Append(done, i)
    /\ UNCHANGED << pc, DELPHI_MODE, calls, responses1, responses2, stage1_results,
                    council_members, delphi_results, material_disagreements,
                    needs_human_review, ranking_input, stage2_results,
                    mapping_metadata, aggregate_rankings, artifact >>

\* Every reflection call has settled: the outcomes are built, and stage 2
\* broadcasts the ranking prompt over the round-2 texts.
ReflectionJoin ==
    /\ pc = "stage1_5"
    /\ Settled(responses1_5)
    /\ LET resps == gather(responses1_5, done)
           results == stage1_5_results(council_members, stage1_results, resps)
           disagreements == stage1_5_disagreements(council_members, resps)
           input == ranking_input_of(stage1_results, Some(results))
       IN /\ delphi_results' = Some(results)
          /\ material_disagreements' = disagreements
          /\ needs_human_review' = stage1_5_needs_human_review(disagreements, results)
          /\ ranking_input' = input
          /\ calls' = calls \o Stage2Calls(council_members, input)
    /\ responses2' = AllPending
    /\ pc' = "stage2"
    /\ done' = << >>
    /\ UNCHANGED << DELPHI_MODE, responses1, responses1_5, stage1_results,
                    council_members, stage2_results, mapping_metadata,
                    aggregate_rankings, artifact >>

\* One ranking call settles: one of the ranking texts, or None.
RankingSettle(i) ==
    /\ pc = "stage2"
    /\ responses2[i].status = "pending"
    /\ \E k \in 0..Len(RankingTexts) :
         responses2' = [ responses2 EXCEPT ![i] = IF k = 0 THEN None(i) ELSE Ok(i, k) ]
    /\ UNCHANGED << pc, DELPHI_MODE, calls, done, responses1, responses1_5, stage1_results,
                    council_members, delphi_results, material_disagreements,
                    needs_human_review, ranking_input, stage2_results,
                    mapping_metadata, aggregate_rankings, artifact >>

ChairmanCall(results1, results2, delphi, review) ==
    [ stage |-> "stage3", model |-> CHAIRMAN_MODEL,
      prompt |-> chairman_prompt(results1, results2, delphi, review) ]

\* The chairman is called as soon as one ranking call has returned; the calls
\* still pending count as failed.
RankingJoin_NoBarrier ==
    /\ pc = "stage2"
    /\ \E i \in DOMAIN responses2 : responses2[i].status # "pending"
    /\ LET arrived == [ i \in DOMAIN responses2 |->
                         IF responses2[i].status = "pending" THEN None(i)
                         ELSE responses2[i] ]
           results == stage2_collect(query_models_parallel(COUNCIL_MODELS, arrived))
           mapping == stage2_mapping_metadata(council_members)
       IN /\ stage2_results' = results
          /\ mapping_metadata' = mapping
          /\ aggregate_rankings' =
                calculate_aggregate_rankings(results, mapping.response_mapping)
          /\ calls' = Append(calls, ChairmanCall(stage1_results, results,
                                                 delphi_results, needs_human_review))
    /\ pc' = "stage3"
    /\ UNCHANGED << DELPHI_MODE, done, responses1, responses1_5, responses2, stage1_results,
                    council_members, delphi_results, material_disagreements,
                    needs_human_review, ranking_input, artifact >>

\* Every ranking call has settled: the submissions are parsed and
\* aggregated, and stage 3 issues the chairman call.
RankingJoin ==
    /\ pc = "stage2"
    /\ Settled(responses2)
    /\ stage2_results' = stage2_collect(query_models_parallel(COUNCIL_MODELS, responses2))
    /\ mapping_metadata' = stage2_mapping_metadata(council_members)
    /\ aggregate_rankings' =
          calculate_aggregate_rankings(stage2_results', mapping_metadata'.response_mapping)
    /\ calls' = Append(calls, ChairmanCall(stage1_results, stage2_results',
                                           delphi_results, needs_human_review))
    /\ pc' = "stage3"
    /\ UNCHANGED << DELPHI_MODE, done, responses1, responses1_5, responses2, stage1_results,
                    council_members, delphi_results, material_disagreements,
                    needs_human_review, ranking_input, artifact >>

\* Metadata whose needs_human_review is always False.
run_full_council_metadata_NoReview ==
    [ council_members |-> mapping_metadata.council_members,
      response_mapping |-> mapping_metadata.response_mapping,
      label_to_model |-> mapping_metadata.label_to_model,
      aggregate_rankings |-> aggregate_rankings,
      delphi_mode |-> DELPHI_MODE,
      delphi_results |-> IF DELPHI_MODE THEN delphi_results ELSE NoList,
      needs_human_review |-> FALSE ]

run_full_council_metadata ==
    [ council_members |-> mapping_metadata.council_members,
      response_mapping |-> mapping_metadata.response_mapping,
      label_to_model |-> mapping_metadata.label_to_model,
      aggregate_rankings |-> aggregate_rankings,
      delphi_mode |-> DELPHI_MODE,
      delphi_results |-> IF DELPHI_MODE THEN delphi_results ELSE NoList,
      needs_human_review |-> needs_human_review ]

\* A chairman call that returns None raises, and nothing is returned.
ChairmanSettle_RaisesOnNone ==
    /\ pc = "stage3"
    /\ \E ok \in BOOLEAN :
         IF ok
         THEN /\ artifact' = << stage1_results,
                               stage2_results,
                               stage3_result_of(Ok(1, 0), needs_human_review),
                               run_full_council_metadata >>
              /\ pc' = "done"
         ELSE /\ artifact' = artifact
              /\ pc' = "raised"
    /\ UNCHANGED << DELPHI_MODE, calls, done, responses1, responses1_5, responses2,
                    stage1_results, council_members, delphi_results,
                    material_disagreements, needs_human_review, ranking_input,
                    stage2_results, mapping_metadata, aggregate_rankings >>

\* The chairman call settles, with a synthesis or with None:
\* run_full_council returns.
ChairmanSettle ==
    /\ pc = "stage3"
    /\ \E ok \in BOOLEAN :
         artifact' = << stage1_results,
                        stage2_results,
                        stage3_result_of(IF ok THEN Ok(1, 0) ELSE None(1),
                                         needs_human_review),
                        run_full_council_metadata >>
    /\ pc' = "done"
    /\ UNCHANGED << DELPHI_MODE, calls, done, responses1, responses1_5, responses2,
                    stage1_results, council_members, delphi_results,
                    material_disagreements, needs_human_review, ranking_input,
                    stage2_results, mapping_metadata, aggregate_rankings >>

Next ==
    \/ Start
    \/ \E i \in Idx : Stage1Settle(i)
    \/ Stage1AllFailed
    \/ Stage1ToReflection
    \/ Stage1ToStage2
    \/ \E i \in Idx : ReflectionSettle(i)
    \/ ReflectionJoin
    \/ \E i \in Idx : RankingSettle(i)
    \/ RankingJoin
    \/ ChairmanSettle

Spec == Init /\ [][Next]_vars

\* ------------------------------------------------------------------------
\* Vocabulary of the properties
\* ------------------------------------------------------------------------

SeqToSet(s, F(_)) == { F(s[i]) : i \in DOMAIN s }

ModelOf(r) == r.model
IdOf(r) == r.id
NameOf(r) == r.name

\* The responders whose stage-1 call returned None / a reply.
Failed1 == { COUNCIL_MODELS[i] : i \in { j \in DOMAIN responses1 : responses1[j].status = "none" } }
Succeeded1 == { COUNCIL_MODELS[i] : i \in { j \in DOMAIN responses1 : responses1[j].status = "ok" } }
\* The responders whose stage-2 call returned a reply.
Succeeded2 == { COUNCIL_MODELS[i] : i \in { j \in DOMAIN responses2 : responses2[j].status = "ok" } }

Stage1Joined == pc \in { "stage1_5", "stage2", "stage3", "done" }
Stage2Joined == pc \in { "stage3", "done" } /\ stage1_results # << >>
Returned == pc = "done"
ShortCircuited == pc = "done" /\ stage1_results = << >>

CallsOf(stage) == SelectSeq(calls, LAMBDA c : c.stage = stage)
LaterCalls == SelectSeq(calls, LAMBDA c : c.stage # "stage1")

\* The responder identifiers a prompt prints.
IdentifiersIn(prompt) ==
    { b.name : b \in { x \in Range(prompt.blocks) : x.by = "model" } }
      \cup { r.name : r \in { x \in Range(prompt.rankings) : x.by = "model" } }

\* The responder identifiers the chairman prompt prints over a member's text.
BlockIdentifiers(prompt) ==
    { b.name : b \in { x \in Range(prompt.blocks) : x.by = "model" } }

RegistryModels ==
    SeqToSet(council_members, ModelOf)
      \cup SeqToSet(mapping_metadata.council_members, ModelOf)
      \cup SeqToSet(mapping_metadata.response_mapping, ModelOf)
      \cup SeqToSet(mapping_metadata.label_to_model, ModelOf)

\* The metadata of the returned artifact names the responder m.
MetadataNames(m) ==
    /\ Returned
    /\ DOMAIN artifact[4] # { }
    /\ \/ m \in SeqToSet(artifact[4].council_members, ModelOf)
       \/ m \in SeqToSet(artifact[4].response_mapping, ModelOf)
       \/ m \in SeqToSet(artifact[4].label_to_model, ModelOf)
       \/ m \in SeqToSet(artifact[4].aggregate_rankings, ModelOf)
       \/ m \in SeqToSet(artifact[4].delphi_results.items, ModelOf)

\* ------------------------------------------------------------------------
\* C1
\* ------------------------------------------------------------------------

\* C1 as stated: a responder whose stage-1 call failed is absent from the
\* registry and its identifier appears in no later-stage prompt or output
\* (reflection outcomes, ranking submissions, chairman prompt, aggregate
\* rankings, metadata).
C1_FailedResponderAppearsNowhere ==
    \A m \in Failed1 :
       /\ m \notin RegistryModels
       /\ m \notin SeqToSet(delphi_results.items, ModelOf)
       /\ m \notin SeqToSet(stage2_results, ModelOf)
       /\ m \notin SeqToSet(aggregate_rankings, ModelOf)
       /\ \A i \in DOMAIN LaterCalls : m \notin IdentifiersIn(LaterCalls[i].prompt)
       /\ ~MetadataNames(m)

\* C1 amended: a responder whose stage-1 call failed is absent from the
\* registry, is sent no reflection prompt, and its identifier appears in no
\* reflection outcome, no reflection or ranking prompt, no aggregate ranking,
\* no member block of the chairman prompt and nowhere in the metadata; it is
\* still sent the ranking prompt, and it appears in the ranking submissions
\* and in the rankings section of the chairman prompt exactly when its
\* stage-2 call returned a reply.
C1_FailedResponderAbsentFromRegistry ==
    \A m \in Failed1 :
       /\ m \notin RegistryModels
       /\ m \notin SeqToSet(delphi_results.items, ModelOf)
       /\ m \notin SeqToSet(aggregate_rankings, ModelOf)
       /\ m \notin SeqToSet(CallsOf("reflection"), ModelOf)
       /\ \A i \in DOMAIN LaterCalls :
             /\ LaterCalls[i].stage # "stage3" => m \notin IdentifiersIn(LaterCalls[i].prompt)
             /\ m \notin BlockIdentifiers(LaterCalls[i].prompt)
       /\ ~MetadataNames(m)
       /\ pc = "stage2" => m \in SeqToSet(CallsOf("stage2"), ModelOf)
       /\ Stage2Joined =>
             /\ m \in SeqToSet(stage2_results, ModelOf) <=> m \in Succeeded2
             /\ \A i \in DOMAIN CallsOf("stage3") :
                   m \in IdentifiersIn(CallsOf("stage3")[i].prompt) <=> m \in Succeeded2

\* A session that returned, in which a responder failed stage 1 and then
\* submitted a ranking.
C1_Witness ==
    /\ Returned
    /\ \E m \in Failed1 : m \in SeqToSet(stage2_results, ModelOf)

\* ------------------------------------------------------------------------
\* C2
\* ------------------------------------------------------------------------

\* C2: after stage 1, the member labels are pairwise distinct, are the run
\* A, B, C, ... with no gap, are as many as the stage-1 calls that succeeded,
\* and every labelled responder is one whose call succeeded.
C2_LabelsContiguous ==
    Stage1Joined =>
       /\ Len(council_members) = Cardinality(Succeeded1)
       /\ \A n \in DOMAIN council_members : council_members[n].id = chr65[n]
       /\ \A a, b \in DOMAIN council_members :
             a # b => council_members[a].id # council_members[b].id
       /\ SeqToSet(council_members, ModelOf) = Succeeded1
       /\ \A n \in DOMAIN stage1_results : stage1_results[n].member_id = chr65[n]

\* Stage 1 is over, the first responder failed and two others got labels.
C2_Witness ==
    /\ Stage1Joined
    /\ responses1[1].status = "none"
    /\ Len(council_members) >= 2

\* ------------------------------------------------------------------------
\* C3
\* ------------------------------------------------------------------------

PositionOf(m) == CHOOSE i \in Idx : COUNCIL_MODELS[i] = m

\* The sequence of responders `models` is the responder list restricted to
\* the set `kept`, in the order of the list.
InListOrder(models, kept) ==
    /\ Range(models) = kept
    /\ Len(models) = Cardinality(kept)
    /\ \A a, b \in DOMAIN models : a < b => PositionOf(models[a]) < PositionOf(models[b])

ModelsOf(s) == [ i \in DOMAIN s |-> s[i].model ]

\* Stage-1 output: list order, each text the reply of the responder it is
\* filed under, labels in the same order.
Stage1InOrder(results, members) ==
    /\ InListOrder(ModelsOf(results), Succeeded1)
    /\ ModelsOf(members) = ModelsOf(results)
    /\ \A n \in DOMAIN results : results[n].response = Round1Text(results[n].model)

\* Reflection output: member order, each outcome built from the reply of the
\* member it is filed under.
ReflectionInOrder(items) ==
    /\ ModelsOf(items) = ModelsOf(council_members)
    /\ \A n \in DOMAIN items :
          /\ items[n].round2_response.model = items[n].model
          /\ items[n].round2_response.k = responses1_5[n].k
          /\ items[n].has_material_disagreement =
                (responses1_5[n].status = "ok"
                   /\ (ReflectionTexts[responses1_5[n].k].explicit
                         \/ ReflectionTexts[responses1_5[n].k].high_risk))

\* Stage-2 output: list order, each submission the reply of the responder it
\* is filed under.
Stage2InOrder(results) ==
    /\ InListOrder(ModelsOf(results), Succeeded2)
    /\ \A n \in DOMAIN results :
          results[n].ranking = RankingTexts[responses2[PositionOf(results[n].model)].k]

C4_TotalFailureShortCircuits ==
    /\ (Stage1Joined /\ Succeeded1 = { }) =>
          /\ pc = "done"
          /\ artifact[1] = << >>
          /\ artifact[2] = << >>
          /\ artifact[3].model = "error"
          /\ artifact[3].response.src = "All models failed to respond. Please try again."
          /\ DOMAIN artifact[4] = { }
          /\ LaterCalls = << >>
    /\ (Returned /\ Succeeded1 # { }) =>
          /\ artifact[1] # << >>
          /\ artifact[3].model = CHAIRMAN_MODEL
          /\ DOMAIN artifact[4] # { }
          /\ Len(CallsOf("stage2")) = Len(COUNCIL_MODELS)
          /\ Len(CallsOf("stage3")) = 1

\* Every stage-1 call failed and run_full_council has returned.
C4_Witness ==
    /\ Returned
    /\ Succeeded1 = { }
    /\ Cardinality(Failed1) = Len(COUNCIL_MODELS)

\* ------------------------------------------------------------------------
\* C5
\* ------------------------------------------------------------------------

ChairmanFailed ==
    /\ Returned
    /\ ~ShortCircuited
    /\ artifact[3].response.src = "Error: Unable to generate final synthesis."

SomeOutcomeFlagged ==
    \E i \in DOMAIN delphi_results.items : delphi_results.items[i].has_material_disagreement

\* C5: when the chairman call fails, one chairman call was issued and none
\* after it, the synthesis is the error message with the escalation boolean
\* of the reflection round, and the stage-1 results, the stage-2 results and
\* the metadata returned are the ones held before the chairman call settled,
\* which do not depend on its outcome.
C5_ChairmanFailureKeepsEarlierStages ==
    ChairmanFailed =>
       /\ Len(CallsOf("stage3")) = 1
       /\ calls[Len(calls)].stage = "stage3"
       /\ calls[Len(calls)].model = CHAIRMAN_MODEL
       /\ artifact[3].model = CHAIRMAN_MODEL
       /\ artifact[3].needs_human_review = needs_human_review
       /\ artifact[3].needs_human_review = SomeOutcomeFlagged
       /\ artifact[1] = stage1_results
       /\ artifact[2] = stage2_results
       /\ artifact[4] = run_full_council_metadata

\* The chairman call failed in a session whose reflection round escalated.
C5_Witness ==
    /\ ChairmanFailed
    /\ needs_human_review
    /\ stage2_results # << >>

\* ------------------------------------------------------------------------
\* C6
\* ------------------------------------------------------------------------

\* C6: on every path the synthesis object of the returned artifact has the
\* three fields responder identifier, text and needsHumanReview.
C6_SynthesisHasAllFields ==
    Returned => { "model", "response", "needs_human_review" } \subseteq DOMAIN artifact[3]

\* ------------------------------------------------------------------------
\* C7
\* ------------------------------------------------------------------------

ReflectionJoined == ~delphi_results.isNone

\* C7: a member whose reflection call fails gets the pass-through outcome
\* (AFFIRM, round-2 text = its round-1 text, not flagged); needsHumanReview
\* is true only if some member that did reply is flagged, so it is false when
\* every reflection call fails, in the synthesis and the metadata too.
C7_FailedReflectionPassesThrough ==
    ReflectionJoined =>
       /\ \A i \in DOMAIN delphi_results.items :
             responses1_5[i].status = "none" =>
                /\ delphi_results.items[i].decision = "AFFIRM"
                /\ delphi_results.items[i].round2_response = stage1_results[i].response
                /\ delphi_results.items[i].round1_response = stage1_results[i].response
                /\ ~delphi_results.items[i].has_material_disagreement
       /\ needs_human_review =>
             \E i \in DOMAIN delphi_results.items :
                /\ responses1_5[i].status = "ok"
                /\ delphi_results.items[i].has_material_disagreement
       /\ (\A i \in DOMAIN responses1_5 : responses1_5[i].status = "none") =>
             /\ ~needs_human_review
             /\ Returned => ~artifact[3].needs_human_review /\ ~artifact[4].needs_human_review

\* A session returned in which the reflection calls of two members or more
\* all failed.
C7_Witness ==
    /\ Returned
    /\ ReflectionJoined
    /\ Len(delphi_results.items) >= 2
    /\ \A i \in DOMAIN responses1_5 : responses1_5[i].status = "none"

\* ------------------------------------------------------------------------
\* C8
\* ------------------------------------------------------------------------

\* C8: after the reflection round needsHumanReview is true exactly when some
\* outcome is flagged, and the list of flagged entries is non-empty exactly
\* when some outcome is flagged, one entry per flagged outcome.
C8_ReviewIffSomeOutcomeFlagged ==
    /\ ReflectionJoined =>
          /\ needs_human_review <=> SomeOutcomeFlagged
          /\ Len(material_disagreements) > 0 <=> SomeOutcomeFlagged
          /\ Len(material_disagreements) =
                Cardinality({ i \in DOMAIN delphi_results.items :
                                delphi_results.items[i].has_material_disagreement })
    /\ ~ReflectionJoined => ~needs_human_review /\ material_disagreements = << >>

\* The reflection round ended with one member flagged, one that replied
\* without a flag and one that did not reply.
C8_Witness ==
    /\ ReflectionJoined
    /\ needs_human_review
    /\ Len(material_disagreements) = 1
    /\ \E i \in DOMAIN responses1_5 : responses1_5[i].status = "none"
    /\ \E i \in DOMAIN responses1_5 :
          responses1_5[i].status = "ok" /\ ~delphi_results.items[i].has_material_disagreement

\* ------------------------------------------------------------------------
\* C9
\* ------------------------------------------------------------------------

\* C9: the reflection round returns one outcome per council member, in
\* member order, the i-th with the i-th member's label, responder and
\* round-1 text, whichever reflection calls fail.
C9_OneOutcomePerMember ==
    ReflectionJoined =>
       /\ Len(delphi_results.items) = Len(council_members)
       /\ Len(delphi_results.items) = Len(stage1_results)
       /\ \A i \in DOMAIN delphi_results.items :
             /\ delphi_results.items[i].member_id = council_members[i].id
             /\ delphi_results.items[i].model = council_members[i].model
             /\ delphi_results.items[i].round1_response = stage1_results[i].response

\* The reflection round ended for three members, the second of which did
\* not reply while the others did.
C9_Witness ==
    /\ ReflectionJoined
    /\ Len(council_members) = 3
    /\ responses1_5[1].status = "ok"
    /\ responses1_5[2].status = "none"
    /\ responses1_5[3].status = "ok"

\* ------------------------------------------------------------------------
\* C10
\* ------------------------------------------------------------------------

MaxSubmissions == 3

ResponseLabel(l) == << "Response", l >>

\* The parsed sequences a submission carries: none, full rankings of three
\* members, partial ones, a label no member has ("Z") before, between and
\* instead of member labels, and a label repeated.
ParsedRankings ==
    { << >>,
      << ResponseLabel("A"), ResponseLabel("B"), ResponseLabel("C") >>,
      << ResponseLabel("B"), ResponseLabel("A"), ResponseLabel("C") >>,
      << ResponseLabel("C"), ResponseLabel("A"), ResponseLabel("B") >>,
      << ResponseLabel("A"), ResponseLabel("Z"), ResponseLabel("B") >>,
      << ResponseLabel("Z"), ResponseLabel("C") >>,
      << ResponseLabel("Z") >>,
      << ResponseLabel("B") >>,
      << ResponseLabel("C"), ResponseLabel("B") >>,
      << ResponseLabel("A"), ResponseLabel("C") >>,
      << ResponseLabel("A"), ResponseLabel("A") >>,
      << ResponseLabel("B"), ResponseLabel("C"), ResponseLabel("B") >> }

\* A ranking text whose section after the marker lists these labels as
\* numbered lines.
NumberedText(parsed) ==
    << Marker >> \o [ n \in DOMAIN parsed |-> Num(parsed[n][2]) ]

\* One entry of stage2_results: the full text and what the parser made of it.
Submission(model, full_text) ==
    [ model |-> model,
      ranking |-> full_text,
      parsed_ranking |-> parse_ranking_from_text(full_text) ]

\* The aggregator is handed the mapping of a council in which every
\* configured responder answered, and up to MaxSubmissions submissions.
InitAggregate ==
    /\ pc = "aggregate"
    /\ DELPHI_MODE = FALSE
    /\ calls = << >>
    /\ done = << >>
    /\ responses1 = << >>
    /\ responses1_5 = << >>
    /\ responses2 = << >>
    /\ stage1_results = << >>
    /\ council_members = stage1_members([ i \in Idx |-> Ok(i, 0) ])
    /\ delphi_results = NoList
    /\ material_disagreements = << >>
    /\ needs_human_review = FALSE
    /\ ranking_input = << >>
    /\ \E n \in 0..MaxSubmissions :
          \E parsed \in [ 1..n -> ParsedRankings ] :
             stage2_results =
                [ i \in 1..n |-> Submission(ModelPool[i], NumberedText(parsed[i])) ]
    /\ mapping_metadata = stage2_mapping_metadata(council_members)
    /\ aggregate_rankings = << >>
    /\ artifact = << >>

Aggregate ==
    /\ pc = "aggregate"
    /\ aggregate_rankings' =
          calculate_aggregate_rankings(stage2_results, mapping_metadata.response_mapping)
    /\ pc' = "aggregated"
    /\ UNCHANGED << DELPHI_MODE, calls, done, responses1, responses1_5, responses2,
                    stage1_results, council_members, delphi_results,
                    material_disagreements, needs_human_review, ranking_input,
                    stage2_results, mapping_metadata, artifact >>

SpecAggregate == InitAggregate /\ [][Aggregate]_vars

\* The parsed sequences of the submissions, in order.
ParsedOf(results) == [ n \in DOMAIN results |-> results[n].parsed_ranking ]

Aggregated == pc = "aggregated"

\* The responder behind a label of the mapping.
ResponderOf(l) ==
    LET i == CHOOSE i \in DOMAIN council_members : council_members[i].id = l
    IN council_members[i].model

\* The submissions of the worked example: [A, B, C], [B, A, C] and one from
\* which no label was parsed.
WorkedExample ==
    ParsedOf(stage2_results) =
       << << ResponseLabel("A"), ResponseLabel("B"), ResponseLabel("C") >>,
          << ResponseLabel("B"), ResponseLabel("A"), ResponseLabel("C") >>,
          << >> >>

\* C11 as stated: on the worked example the responder of B comes first and
\* the responder of A second, both with mean 1.5, and the responder of C
\* third with mean 3.0.
C11_WorkedExampleBFirst ==
    (Aggregated /\ WorkedExample) =>
       /\ ModelsOf(aggregate_rankings)
             = << ResponderOf("B"), ResponderOf("A"), ResponderOf("C") >>
       /\ [ i \in DOMAIN aggregate_rankings |-> aggregate_rankings[i].average_rank ]
             = << 150, 150, 300 >>

\* C11, amended: on the worked example the responder of A, first seen in the
\* first submission, comes first and the responder of B second, both with
\* mean 1.50 over two positions, and the responder of C third with mean 3.00.
C11_WorkedExampleAFirst ==
    (Aggregated /\ WorkedExample) =>
       /\ ModelsOf(aggregate_rankings)
             = << ResponderOf("A"), ResponderOf("B"), ResponderOf("C") >>
       /\ [ i \in DOMAIN aggregate_rankings |-> aggregate_rankings[i].average_rank ]
             = << 150, 150, 300 >>
       /\ \A i \in DOMAIN aggregate_rankings : aggregate_rankings[i].rankings_count = 2

\* The aggregator has run on the worked example with members A, B and C.
C11_Witness ==
    /\ Aggregated
    /\ WorkedExample
    /\ Len(aggregate_rankings) = 3
    /\ { "A", "B", "C" } \subseteq MappingKeys(mapping_metadata.response_mapping)

\* Where the submissions mention a responder: the pairs << submission,
\* position >> whose label is a key of the mapping that stands for it.
MentionsOf(model) ==
    UNION { { << n, p >> : p \in { q \in DOMAIN stage2_results[n].parsed_ranking :
                 LET l == stage2_results[n].parsed_ranking[q][2]
                 IN /\ l \in MappingKeys(mapping_metadata.response_mapping)
                    /\ ResponderOf(l) = model } }
            : n \in DOMAIN stage2_results }

\* Walking the submissions in order and each parsed sequence left to right,
\* m1 is met before m2.
FirstSeenBefore(m1, m2) ==
    \E x \in MentionsOf(m1) :
       \A y \in MentionsOf(m2) : x[1] < y[1] \/ (x[1] = y[1] /\ x[2] < y[2])

\* C12: the aggregator's output is in ascending order of mean rank, and of
\* two entries with the same mean the one whose responder was met first in
\* the submissions comes first.
C12_AscendingTiesFirstSeen ==
    Aggregated =>
       \A i, j \in DOMAIN aggregate_rankings :
          i < j =>
             /\ aggregate_rankings[i].average_rank <= aggregate_rankings[j].average_rank
             /\ aggregate_rankings[i].average_rank = aggregate_rankings[j].average_rank
                   => FirstSeenBefore(aggregate_rankings[i].model,
                                      aggregate_rankings[j].model)

\* The output holds a tie, and the sort moved a responder met later ahead of
\* one met earlier.
C12_Witness ==
    /\ Aggregated
    /\ \E i, j \in DOMAIN aggregate_rankings :
          /\ i < j
          /\ aggregate_rankings[i].average_rank = aggregate_rankings[j].average_rank
    /\ \E i, j \in DOMAIN aggregate_rankings :
          /\ i < j
          /\ aggregate_rankings[i].average_rank < aggregate_rankings[j].average_rank
          /\ FirstSeenBefore(aggregate_rankings[j].model, aggregate_rankings[i].model)

RECURSIVE PositionSum(_)
\* The sum of the positions of a set of mentions.
PositionSum(mentions) ==
    IF mentions = { } THEN 0
    ELSE LET x == CHOOSE x \in mentions : TRUE
         IN x[2] + PositionSum(mentions \ { x })

\* The responders the submissions mention under a label of the mapping.
MentionedResponders ==
    { m \in RegistryModels : MentionsOf(m) # { } }

\* C13: a mention counts with its 1-based index in the parsed sequence,
\* whatever unmapped labels stand before it; an unmapped label adds nothing;
\* each mentioned responder has one entry, whose mean is the arithmetic mean
\* of its positions, to two decimals (positions 1 and 3 give 2.00).
C13_MeanOfOneBasedPositions ==
    Aggregated =>
       /\ SeqToSet(aggregate_rankings, ModelOf) = MentionedResponders
       /\ Len(aggregate_rankings) = Cardinality(MentionedResponders)
       /\ \A i \in DOMAIN aggregate_rankings :
             LET e == aggregate_rankings[i]
                 mentions == MentionsOf(e.model)
                 total == PositionSum(mentions)
                 count == Cardinality(mentions)
                 error == 100 * total - e.average_rank * count
             IN /\ 2 * error <= count
                /\ 2 * error >= 0 - count
                /\ ({ x[2] : x \in mentions } = { 1, 3 } /\ count = 2)
                      => e.average_rank = 200

\* The aggregator has met an unmapped label ahead of a member's label in one
\* submission, and a responder with the positions 1 and 3.
C13_Witness ==
    /\ Aggregated
    /\ \E n \in DOMAIN stage2_results :
          LET parsed == stage2_results[n].parsed_ranking
          IN \E p, q \in DOMAIN parsed :
                /\ p < q
                /\ parsed[p][2] \notin MappingKeys(mapping_metadata.response_mapping)
                /\ parsed[q][2] \in MappingKeys(mapping_metadata.response_mapping)
    /\ \E i \in DOMAIN aggregate_rankings :
          LET mentions == MentionsOf(aggregate_rankings[i].model)
          IN /\ { x[2] : x \in mentions } = { 1, 3 }
             /\ Cardinality(mentions) = 2
             /\ aggregate_rankings[i].average_rank = 200

\* C14 as stated: the count of an entry is the number of submissions that
\* mention its responder's label, and so never exceeds the number of
\* submissions, also when a parsed sequence repeats a label.
C14_CountIsSubmissionsMentioning ==
    Aggregated =>
       \A i \in DOMAIN aggregate_rankings :
          /\ aggregate_rankings[i].rankings_count
                = Cardinality({ x[1] : x \in MentionsOf(aggregate_rankings[i].model) })
          /\ aggregate_rankings[i].rankings_count <= Len(stage2_results)

\* ------------------------------------------------------------------------
\* parse_ranking_from_text on its own
\* ------------------------------------------------------------------------

\* The longest ranking text, in tokens.
MaxTokens == 4

\* "Z" is a label of no member.
Tokens == { Marker, Num("A"), Num("Z"), Bare("A"), Bare("B"), Other }

RankingReplies == UNION { [ 1..n -> Tokens ] : n \in 0..MaxTokens }

\* One ranking reply has arrived, with any text of up to MaxTokens tokens.
InitParse ==
    /\ pc = "parse"
    /\ DELPHI_MODE = FALSE
    /\ calls = << >>
    /\ done = << >>
    /\ responses1 = << >>
    /\ responses1_5 = << >>
    /\ \E full_text \in RankingReplies :
          responses2 = << [ status |-> "ok", from |-> 1, content |-> full_text ] >>
    /\ stage1_results = << >>
    /\ council_members = << >>
    /\ delphi_results = NoList
    /\ material_disagreements = << >>
    /\ needs_human_review = FALSE
    /\ ranking_input = << >>
    /\ stage2_results = << >>
    /\ mapping_metadata = stage2_mapping_metadata(<< >>)
    /\ aggregate_rankings = << >>
    /\ artifact = << >>

\* The body of the loop over the replies, for that reply.
ParseReply ==
    /\ pc = "parse"
    /\ stage2_results' =
          Append(stage2_results,
                 Submission(COUNCIL_MODELS[responses2[1].from], responses2[1].content))
    /\ pc' = "parsed"
    /\ UNCHANGED << DELPHI_MODE, calls, done, responses1, responses1_5, responses2,
                    stage1_results, council_members, delphi_results,
                    material_disagreements, needs_human_review, ranking_input,
                    mapping_metadata, aggregate_rankings, artifact >>

SpecParse == InitParse /\ [][ParseReply]_vars

\* The labels of the tokens of these kinds, in order of appearance.
LabelsIn(tokens, kinds) ==
    LET at == SelectIdx([ i \in DOMAIN tokens |-> tokens[i].t \in kinds ], 1, Len(tokens))
    IN [ n \in DOMAIN at |-> ResponseLabel(tokens[at[n]].l) ]

\* Everything after the first marker of a text that holds one.
AfterFirstMarker(tokens) ==
    LET first == CHOOSE i \in DOMAIN tokens :
                    /\ tokens[i] = Marker
                    /\ \A j \in 1..(i - 1) : tokens[j] # Marker
    IN SubSeq(tokens, first + 1, Len(tokens))

\* C15 as stated: with a marker the result is read from all of the text
\* after the first marker, the numbered lines if there is one and the bare
\* mentions otherwise; without a marker it is every mention of the whole
\* text; duplicates and labels of no member stay.
C15_ParsedFromAllAfterFirstMarker ==
    pc = "parsed" =>
       LET full_text == stage2_results[1].ranking
           parsed == stage2_results[1].parsed_ranking
       IN IF \E i \in DOMAIN full_text : full_text[i] = Marker
          THEN LET section == AfterFirstMarker(full_text)
               IN IF LabelsIn(section, { "num" }) # << >>
                  THEN parsed = LabelsIn(section, { "num" })
                  ELSE parsed = LabelsIn(section, { "num", "bare" })
          ELSE parsed = LabelsIn(full_text, { "num", "bare" })

\* ------------------------------------------------------------------------
\* The pipeline again
\* ------------------------------------------------------------------------

\* Every order in which n concurrent calls may complete.
CompletionOrders(n) ==
    { d \in [ 1..n -> 1..n ] : \A i, j \in 1..n : i # j => d[i] # d[j] }

EveryCallSettled(resps, n) ==
    /\ Len(resps) = n
    /\ \A i \in 1..n : resps[i].status \in { "ok", "none" }

\* In a step in which a pending call returns None, every sibling is left as
\* it was: pending, or settled with its own outcome.
FailureLeavesSiblings(before, after) ==
    \A i \in DOMAIN before :
       (before[i].status = "pending" /\ i \in DOMAIN after /\ after[i].status = "none")
          => \A j \in DOMAIN before \ { i } : j \in DOMAIN after /\ after[j] = before[j]

BarrierHolds ==
    /\ (CallsOf("reflection") # << >> \/ CallsOf("stage2") # << >>)
          => EveryCallSettled(responses1, Len(COUNCIL_MODELS))
    /\ (CallsOf("reflection") # << >> /\ CallsOf("stage2") # << >>)
          => EveryCallSettled(responses1_5, Len(council_members))
    /\ CallsOf("stage3") # << >>
          => /\ EveryCallSettled(responses2, Len(COUNCIL_MODELS))
             /\ CallsOf("stage2") # << >>
    /\ (council_members # << >> \/ stage1_results # << >>
          \/ mapping_metadata.response_mapping # << >>)
          => EveryCallSettled(responses1, Len(COUNCIL_MODELS))

BarrierStep ==
    /\ FailureLeavesSiblings(responses1, responses1')
    /\ FailureLeavesSiblings(responses1_5, responses1_5')
    /\ FailureLeavesSiblings(responses2, responses2')
    /\ council_members # << >> => council_members' = council_members

\* C17: a reflection, ranking or chairman call is in the list of issued
\* calls only when every call of the stage before has returned; the registry
\* is non-empty only when every stage-1 call has returned, and once written
\* it does not change; a step in which a call fails changes no sibling call.
C17_StagesSeparatedByBarriers == [](BarrierHolds) /\ [][BarrierStep]_vars

\* In the reflection round of three members the first call to return failed,
\* the second replied, and the third is still pending.
C17_Witness ==
    /\ pc = "stage1_5"
    /\ Len(done) = 2
    /\ responses1_5[done[1]].status = "none"
    /\ responses1_5[done[2]].status = "ok"
    /\ \E i \in DOMAIN responses1_5 : responses1_5[i].status = "pending"

\* C18: the ranking submissions are those of the responders whose ranking
\* call replied, one each, each made of its own reply alone; the
\* registry and the mapping are what stage 1 left; one chairman call is
\* issued. When every ranking call fails the submissions and the aggregate
\* are empty, the chairman is still called once, with no rankings, and the
\* artifact returned holds the stage-1 results, the chairman's synthesis
\* record and the metadata of the registry.
C18_RankingFailuresOnlyShrinkSubmissions ==
    /\ Stage2Joined =>
          /\ Range(ModelsOf(stage2_results)) = Succeeded2
          /\ Len(stage2_results) = Cardinality(Succeeded2)
          /\ \A n \in DOMAIN stage2_results :
                stage2_results[n] =
                   Submission(stage2_results[n].model,
                              RankingTexts[responses2[PositionOf(stage2_results[n].model)].k])
          /\ council_members = stage1_members(responses1)
          /\ mapping_metadata = stage2_mapping_metadata(council_members)
          /\ Len(CallsOf("stage3")) = 1
          /\ Succeeded2 = { } =>
                /\ stage2_results = << >>
                /\ aggregate_rankings = << >>
                /\ CallsOf("stage3")[1].prompt.rankings = << >>
    /\ (Returned /\ ~ShortCircuited /\ Succeeded2 = { }) =>
          /\ artifact[1] = stage1_results
          /\ artifact[1] # << >>
          /\ artifact[2] = << >>
          /\ artifact[3].model = CHAIRMAN_MODEL
          /\ DOMAIN artifact[4] # { }
          /\ artifact[4].council_members = council_members
          /\ artifact[4].council_members # << >>
          /\ artifact[4].response_mapping = stage2_response_mapping(council_members)
          /\ artifact[4].aggregate_rankings = << >>

\* Every ranking call failed, the chairman replied and the artifact was
\* returned.
C18_Witness ==
    /\ Returned
    /\ ~ShortCircuited
    /\ Succeeded2 = { }
    /\ Len(responses2) = Len(COUNCIL_MODELS)
    /\ artifact[3].response.src = "synthesis"

\* The event loop runs a coroutine that can run, and every call that was
\* issued returns in the end, with a reply or with None: a step that stays
\* possible is taken.
FairSpec == Spec /\ WF_vars(Next)

\* C19: whatever calls succeed and fail, when every call returns in the end
\* run_full_council returns, and what it returns is the artifact of four
\* parts; it stops nowhere else.
C19_EventuallyReturnsAnArtifact == <>[](Returned /\ Len(artifact) = 4)

\* A session returned in which a stage-1 call, a reflection call, a ranking
\* call and the chairman call failed.
C19_Witness ==
    /\ ChairmanFailed
    /\ Failed1 # { }
    /\ \E i \in DOMAIN responses1_5 : responses1_5[i].status = "none"
    /\ \E i \in DOMAIN responses2 : responses2[i].status = "none"
    /\ \E i \in DOMAIN responses2 : responses2[i].status = "ok"

\* The labels of the registry a session returned.
RegisteredLabels(metadata) == SeqToSet(metadata.council_members, IdOf)

\* C20: in the metadata of a returned session that passed stage 1, the keys
\* of response_mapping and the labels of label_to_model are exactly the
\* registered labels, each standing for the responder the registry gives it;
\* the member label of every reflection outcome is registered; the responder
\* of every aggregate entry is the responder of a registered member.
C20_MetadataRefersToRegistry ==
    (Returned /\ ~ShortCircuited) =>
       LET metadata == artifact[4]
           labels == RegisteredLabels(metadata)
       IN /\ labels # { }
          /\ Cardinality(labels) = Len(metadata.council_members)
          /\ MappingKeys(metadata.response_mapping) = labels
          /\ Len(metadata.response_mapping) = Cardinality(labels)
          /\ { e.label : e \in Range(metadata.label_to_model) }
                = { << "Response", l >> : l \in labels }
          /\ Len(metadata.label_to_model) = Cardinality(labels)
          /\ \A m \in Range(metadata.council_members) :
                /\ MappingGet(metadata.response_mapping, m.id).model = m.model
                /\ \E e \in Range(metadata.label_to_model) :
                      e.label = << "Response", m.id >> /\ e.model = m.model
          /\ \A o \in Range(metadata.delphi_results.items) : o.member_id \in labels
          /\ \A e \in Range(metadata.aggregate_rankings) :
                e.model \in SeqToSet(metadata.council_members, ModelOf)

\* A session returned after a reflection round, with fewer members than
\* responders and a non-empty aggregate.
C20_Witness ==
    /\ Returned
    /\ ~ShortCircuited
    /\ Failed1 # { }
    /\ Len(artifact[4].council_members) >= 2
    /\ artifact[4].delphi_results.items # << >>
    /\ artifact[4].aggregate_rankings # << >>

\* ------------------------------------------------------------------------
\* Escalation and mode
\* ------------------------------------------------------------------------

BaseSections == << "A", "B", "C", "D", "E" >>

\* The prompt of the chairman call, once it is issued.
ChairmanCalled == CallsOf("stage3") # << >>
ChairmanPrompt == CallsOf("stage3")[1].prompt

\* C21: in a session with a chairman call, when some member's reflection
\* outcome is flagged the chairman prompt has the sixth section, F, after the
\* five base sections and the returned synthesis has needs_human_review
\* true; when none is flagged, or no reflection round ran, the prompt has
\* exactly the five base sections and needs_human_review is false.
C21_SixthSectionIffFlagged ==
    /\ ChairmanCalled =>
          /\ SomeOutcomeFlagged => ChairmanPrompt.sections = BaseSections \o << "F" >>
          /\ (~SomeOutcomeFlagged \/ ~ReflectionJoined) =>
                ChairmanPrompt.sections = BaseSections
    /\ (Returned /\ ~ShortCircuited) =>
          /\ SomeOutcomeFlagged => artifact[3].needs_human_review
          /\ (~SomeOutcomeFlagged \/ ~ReflectionJoined) => ~artifact[3].needs_human_review

\* A session returned with the chairman's synthesis after a reflection round
\* in which one outcome was flagged and another was not.
C21_Witness ==
    /\ Returned
    /\ ~ShortCircuited
    /\ artifact[3].response.src = "synthesis"
    /\ SomeOutcomeFlagged
    /\ \E i \in DOMAIN delphi_results.items : ~delphi_results.items[i].has_material_disagreement
    /\ ChairmanPrompt.sections = BaseSections \o << "F" >>

\* ------------------------------------------------------------------------
\* get_governance_role over any responder list
\* ------------------------------------------------------------------------

\* The longest responder list the roles are assigned over.
MaxCouncil == 2

Identifiers == Range(ModelPool) \cup OtherIdentifiers

\* The stage-1 calls of a responder list.
CallsFor(models) ==
    [ i \in DOMAIN models |->
        [ stage |-> "stage1", model |-> models[i],
          prompt |-> [ kind |-> "question",
                       prefix |-> role_prefix(models[i]),
                       blocks |-> << >>,
                       rankings |-> << >> ] ] ]

\* The members stage 1 builds over the calls of any responder list: one per
\* reply, labelled by the counter, with the role of its identifier.
MembersFor(stage1_calls, resps) ==
    LET kept == Stage1Kept(resps)
    IN [ n \in 1..Len(kept) |->
           [ id |-> chr65[n],
             model |-> stage1_calls[kept[n]].model,
             role |-> get_governance_role(stage1_calls[kept[n]].model) ] ]

\* The stage-1 calls of a responder list of up to MaxCouncil identifiers have
\* all settled, each with a reply or with None.
InitRoles ==
    /\ pc = "roles"
    /\ DELPHI_MODE = FALSE
    /\ \E n \in 0..MaxCouncil :
          /\ \E models \in [ 1..n -> Identifiers ] : calls = CallsFor(models)
          /\ \E ok \in [ 1..n -> BOOLEAN ] :
                responses1 = [ i \in 1..n |-> IF ok[i] THEN Ok(i, 0) ELSE None(i) ]
    /\ done = << >>
    /\ responses1_5 = << >>
    /\ responses2 = << >>
    /\ stage1_results = << >>
    /\ council_members = << >>
    /\ delphi_results = NoList
    /\ material_disagreements = << >>
    /\ needs_human_review = FALSE
    /\ ranking_input = << >>
    /\ stage2_results = << >>
    /\ mapping_metadata = stage2_mapping_metadata(<< >>)
    /\ aggregate_rankings = << >>
    /\ artifact = << >>

\* The loop that builds the council members.
AssignRoles ==
    /\ pc = "roles"
    /\ council_members' = MembersFor(calls, responses1)
    /\ pc' = "roles_assigned"
    /\ UNCHANGED << DELPHI_MODE, calls, done, responses1, responses1_5, responses2,
                    stage1_results, delphi_results, material_disagreements,
                    needs_human_review, ranking_input, stage2_results,
                    mapping_metadata, aggregate_rankings, artifact >>

SpecRoles == InitRoles /\ [][AssignRoles]_vars

ExactMatch(model) == model \in DOMAIN GOVERNANCE_ROLES
FamilyMatch(model) ==
    /\ "openai/" \in KeywordsIn(Lower(model))
    /\ { "chatgpt", "gpt" } \cap KeywordsIn(Lower(model)) # { }
VendorMatch(model) == "mistral" \in KeywordsIn(Lower(model))

\* C22: the role of every member is decided by its identifier alone, by the
\* first rule that applies: the role of the table on an exact match; else
\* Systems Integrator on a match of the ChatGPT family, also when the Mistral
\* keyword matches too; else Safety Engineer on a match of the Mistral
\* keyword; else Council Member.
C22_RoleByFirstMatchingRule ==
    pc = "roles_assigned" =>
       \A i \in DOMAIN council_members :
          LET model == council_members[i].model
              role == council_members[i].role
          IN /\ ExactMatch(model) => role = GOVERNANCE_ROLES[model]
             /\ (~ExactMatch(model) /\ FamilyMatch(model)) => role = "Systems Integrator"
             /\ (~ExactMatch(model) /\ ~FamilyMatch(model) /\ VendorMatch(model))
                   => role = "Safety Engineer"
             /\ (~ExactMatch(model) /\ ~FamilyMatch(model) /\ ~VendorMatch(model))
                   => role = "Council Member"
             /\ \A j \in DOMAIN council_members :
                   council_members[j].model = model => council_members[j].role = role

\* Roles were assigned to a council of a member that matches both fallbacks
\* and a member that matches the Mistral keyword only.
C22_Witness ==
    /\ pc = "roles_assigned"
    /\ \E i, j \in DOMAIN council_members :
          /\ FamilyMatch(council_members[i].model)
          /\ VendorMatch(council_members[i].model)
          /\ council_members[i].role = "Systems Integrator"
          /\ ~FamilyMatch(council_members[j].model)
          /\ VendorMatch(council_members[j].model)
          /\ council_members[j].role = "Safety Engineer"

\* The text of the n-th member in the round the session ended on: round 2
\* when the reflection round ran, round 1 when it did not.
FinalRoundText(n) ==
    IF ReflectionJoined THEN delphi_results.items[n].round2_response
    ELSE stage1_results[n].response

\* C23: every ranking prompt and the chairman prompt show one text block per
\* member, in member order, and the text of each block is the member's
\* round-2 text when the reflection round ran and its round-1 text when it
\* did not, in both stages alike.
C23_BothStagesShowTheSameRound ==
    /\ \A c \in Range(CallsOf("stage2")) :
          /\ Len(c.prompt.blocks) = Len(council_members)
          /\ \A n \in DOMAIN c.prompt.blocks :
                /\ c.prompt.blocks[n].name = council_members[n].id
                /\ c.prompt.blocks[n].text = FinalRoundText(n)
    /\ ChairmanCalled =>
          /\ Len(ChairmanPrompt.blocks) = Len(council_members)
          /\ ChairmanPrompt.mode_context = IF ReflectionJoined THEN "delphi" ELSE "individual"
          /\ \A n \in DOMAIN ChairmanPrompt.blocks :
                /\ ChairmanPrompt.blocks[n].name = council_members[n].model
                /\ ChairmanPrompt.blocks[n].text = FinalRoundText(n)
                /\ ChairmanPrompt.blocks[n].text = CallsOf("stage2")[1].prompt.blocks[n].text

\* The chairman was called after a reflection round in which one member
\* revised its text and another kept its round-1 text.
C23_Witness ==
    /\ ChairmanCalled
    /\ ReflectionJoined
    /\ \E n \in DOMAIN delphi_results.items :
          delphi_results.items[n].round2_response # stage1_results[n].response
    /\ \E n \in DOMAIN delphi_results.items :
          delphi_results.items[n].round2_response = stage1_results[n].response

\* C24: with DELPHI_MODE off no reflection call is ever issued and no
\* reflection outcome or escalation is ever recorded; a session that had
\* responder texts returns metadata whose delphi_results is None, and
\* needs_human_review is False in its synthesis and in its metadata; the
\* artifact of a session in which no responder replied carries no true
\* needs_human_review either.
C24_FlagOffMeansNoReflection ==
    ~DELPHI_MODE =>
       /\ CallsOf("reflection") = << >>
       /\ responses1_5 = << >>
       /\ delphi_results = NoList
       /\ material_disagreements = << >>
       /\ ~needs_human_review
       /\ ChairmanCalled => ChairmanPrompt.sections = BaseSections
       /\ (Returned /\ ~ShortCircuited) =>
             /\ artifact[4].delphi_mode = FALSE
             /\ artifact[4].delphi_results = NoList
             /\ artifact[4].needs_human_review = FALSE
             /\ artifact[3].needs_human_review = FALSE
       /\ Returned =>
             \A part \in { 3, 4 } :
                "needs_human_review" \in DOMAIN artifact[part] =>
                   ~artifact[part].needs_human_review

\* A session with DELPHI_MODE off returned after every configured responder
\* replied in stage 1 and the chairman replied.
C24_Witness ==
    /\ ~DELPHI_MODE
    /\ Returned
    /\ Len(stage1_results) = NumModels
    /\ ~ChairmanFailed
    /\ Len(CallsOf("stage2")) = NumModels

\* C25: in the artifact of a session that passed stage 1 the synthesis and
\* the metadata both carry needs_human_review, and the two values are equal
\* (both are the value the reflection round returned, False when it did not
\* run), whether the chairman call returned a reply or None.
C25_SynthesisAndMetadataAgreeOnReview ==
    (Returned /\ ~ShortCircuited) =>
       /\ "needs_human_review" \in DOMAIN artifact[3]
       /\ "needs_human_review" \in DOMAIN artifact[4]
       /\ artifact[3].needs_human_review = artifact[4].needs_human_review
       /\ artifact[4].needs_human_review = needs_human_review

\* The chairman call failed in a session whose reflection round asked for
\* human review: both parts of the artifact say so.
C25_Witness ==
    /\ ChairmanFailed
    /\ artifact[3].needs_human_review
    /\ artifact[4].needs_human_review
    /\ artifact[4].delphi_mode

\* The members other than the i-th.
OtherMembers(i) == DOMAIN council_members \ { i }

\* C26: the result list and the member list are index-aligned after stage 1
\* and after the reflection round (the i-th result has the id and the
\* responder of the i-th member and holds a text that responder produced);
\* in every ranking prompt the block under a label is the text produced by
\* the responder the label maps to; the digest of the i-th member's
\* reflection prompt has one entry for each other member's round-1 text and
\* none for its own.
C26_ResultsAlignedWithMembers ==
    /\ Len(stage1_results) = Len(council_members)
    /\ \A i \in DOMAIN council_members :
          /\ stage1_results[i].member_id = council_members[i].id
          /\ stage1_results[i].model = council_members[i].model
          /\ stage1_results[i].response.model = council_members[i].model
    /\ ReflectionJoined =>
          /\ Len(delphi_results.items) = Len(council_members)
          /\ \A i \in DOMAIN council_members :
                /\ delphi_results.items[i].member_id = council_members[i].id
                /\ delphi_results.items[i].model = council_members[i].model
                /\ delphi_results.items[i].round1_response = stage1_results[i].response
                /\ delphi_results.items[i].round2_response.model = council_members[i].model
    /\ \A c \in Range(CallsOf("stage2")) :
          /\ DOMAIN c.prompt.blocks = DOMAIN council_members
          /\ \A n \in DOMAIN c.prompt.blocks :
                /\ << "Response", c.prompt.blocks[n].name >> = label(council_members[n])
                /\ c.prompt.blocks[n].text.model = council_members[n].model
                /\ c.prompt.blocks[n].text = ranking_input[n].response
                /\ ranking_input[n].member_id = council_members[n].id
                /\ Stage2Joined =>
                      MappingGet(mapping_metadata.response_mapping,
                                 c.prompt.blocks[n].name).model
                         = c.prompt.blocks[n].text.model
    /\ Len(CallsOf("reflection")) \in { 0, Len(council_members) }
    /\ \A i \in DOMAIN CallsOf("reflection") :
          LET c == CallsOf("reflection")[i]
          IN /\ c.model = council_members[i].model
             /\ c.prompt.own = stage1_results[i].response
             /\ Len(c.prompt.blocks) = Cardinality(OtherMembers(i))
             /\ \A j \in OtherMembers(i) :
                   \E n \in DOMAIN c.prompt.blocks :
                      c.prompt.blocks[n].text = stage1_results[j].response
             /\ \A n \in DOMAIN c.prompt.blocks :
                   /\ c.prompt.blocks[n].text # c.prompt.own
                   /\ c.prompt.blocks[n].text.model # council_members[i].model

\* The first configured responder failed stage 1, so the labels are shifted
\* against the configured list; the reflection round ran with two members
\* and the ranking prompts have been sent.
C26_Witness ==
    /\ ReflectionJoined
    /\ Len(council_members) = 2
    /\ council_members[1].model = COUNCIL_MODELS[2]
    /\ Len(CallsOf("reflection")) = 2
    /\ CallsOf("stage2") # << >>

====
